---- MODULE Spec2Model ----
(***************************************************************************)
(* Model of src/app.py: the table loader (load_all_data) and the filter    *)
(* engine (filter_data) of the CSV browser.                                *)
(*                                                                         *)
(* A text value is a sequence of one-character strings, so that lowercase  *)
(* conversion, equality and substring/regex search are computed and not    *)
(* assumed.  A table is [columns, rows]; a row is [index, cells] where     *)
(* index is the pandas index label (kept by boolean selection) and cells   *)
(* maps every column of the table to a text value or to NaN.               *)
(***************************************************************************)
EXTENDS Integers, Sequences, FiniteSets, TLC

\* ------------------------------------------------------------------ bounds

\* Longest list of files handed to load_all_data.
MaxFiles == 2

\* ------------------------------------------------------------- text values

\* NaN, the null of pandas: what read_csv gives for an empty cell and what
\* concat gives for a column a file does not have.  It is no text value.
NaN == <<"NaN-object">>

\* Python values handed to filter_data, tagged with their type as isinstance
\* sees it: None, a str, or a list of str.
None == [type |-> "NoneType"]
Str(s) == [type |-> "str", value |-> s]
List(l) == [type |-> "list", value |-> l]

ascii_uppercase ==
    <<"A","B","C","D","E","F","G","H","I","J","K","L","M",
      "N","O","P","Q","R","S","T","U","V","W","X","Y","Z">>

ascii_lowercase ==
    <<"a","b","c","d","e","f","g","h","i","j","k","l","m",
      "n","o","p","q","r","s","t","u","v","w","x","y","z">>

\* str.lower() on one character.
LowerChar(c) ==
    IF \E i \in 1..Len(ascii_uppercase) : ascii_uppercase[i] = c
    THEN ascii_lowercase[CHOOSE i \in 1..Len(ascii_uppercase) : ascii_uppercase[i] = c]
    ELSE c

\* str.lower() / Series.str.lower() on one text value.
lower(s) == [i \in 1..Len(s) |-> LowerChar(s[i])]

\* Series.astype(str) on one cell of an object column: str(float('nan')) is
\* the three letters "nan"; a text value is itself.
astype_str(v) == IF v = NaN THEN <<"n","a","n">> ELSE v

\* ------------------------------------------------------------------ tables

Range(s) == {s[i] : i \in 1..Len(s)}

\* pd.DataFrame(): no columns, no rows.
EmptyDataFrame == [columns |-> <<>>, rows |-> <<>>]

\* col in df.columns
HasColumn(df, col) == col \in Range(df.columns)

\* len(df)
NumRows(df) == Len(df.rows)

\* df[mask]: the rows whose place in the boolean mask holds TRUE, in order,
\* each with its index label.
RECURSIVE BoolIndex(_, _)
BoolIndex(rows, mask) ==
    IF rows = <<>> THEN <<>>
    ELSE (IF Head(mask) THEN <<Head(rows)>> ELSE <<>>)
         \o BoolIndex(Tail(rows), Tail(mask))

\* The columns of b that a does not have, in b's order.
RECURSIVE NewColumns(_, _)
NewColumns(a, b) ==
    IF b = <<>> THEN <<>>
    ELSE (IF Head(b) \in Range(a) THEN <<>> ELSE <<Head(b)>>)
         \o NewColumns(a, Tail(b))

\* ------------------------------------------------------------------- files

\* The name of the provenance column.
ProvenanceColumn == "_arquivo"

\* The CSV files under Arquivos/ (list_files): a path, and the file's parsed
\* contents: the header line and the data lines, an empty cell being NaN.
\* Cells are text as read_csv(dtype=str) leaves them; no cell spells one of
\* read_csv's null markers ("nan", "NA", ...), which it reads as NaN.
FileA ==
    [path   |-> << <<"A","r","q","u","i","v","o","s">>, <<"a",".","c","s","v">> >>,
     header |-> <<"SETOR", "SIT">>,
     lines  |-> << << <<"R","H">>, <<"A","t","i","v","o">> >>,
                   << <<"t","i">>, NaN >> >>]

FileB ==
    [path   |-> << <<"A","r","q","u","i","v","o","s">>, <<"s","u","b">>,
                   <<"b",".","c","s","v">> >>,
     header |-> <<"SETOR">>,
     lines  |-> << << <<"r","h">> >> >>]

FileC ==
    [path   |-> << <<"A","r","q","u","i","v","o","s">>, <<"c",".","c","s","v">> >>,
     header |-> <<"SIT">>,
     lines  |-> <<>>]

CsvFiles == {FileA, FileB, FileC}

\* What list_files can return: each file once, in any order.
FileLists ==
    {fs \in UNION {[1..n -> CsvFiles] : n \in 0..MaxFiles} :
        \A i, j \in 1..Len(fs) : i # j => fs[i] # fs[j]}

\* Path(arquivo).name: the last component of the path.
PathName(path) == path[Len(path)]

\* pd.read_csv(arquivo, sep=";", dtype=str): one row per data line, index
\* 0, 1, ...; every cell text or NaN.
read_csv(f) ==
    [columns |-> f.header,
     rows    |-> [i \in 1..Len(f.lines) |->
                    [index |-> i - 1,
                     cells |-> [c \in Range(f.header) |->
                                  f.lines[i][CHOOSE k \in 1..Len(f.header) :
                                                 f.header[k] = c]]]]]

\* df[col] = scalar: the column is added last when new, overwritten when
\* present; every row gets the scalar.
SetScalarColumn(df, col, v) ==
    [columns |-> IF HasColumn(df, col) THEN df.columns
                 ELSE Append(df.columns, col),
     rows    |-> [i \in 1..NumRows(df) |->
                    [index |-> df.rows[i].index,
                     cells |-> [c \in Range(df.columns) \cup {col} |->
                                  IF c = col THEN v
                                  ELSE df.rows[i].cells[c]]]]]

\* The union of the frames' columns, in order of first appearance.
RECURSIVE UnionColumns(_)
UnionColumns(dfs) ==
    IF dfs = <<>> THEN <<>>
    ELSE LET rest == UnionColumns(SubSeq(dfs, 1, Len(dfs) - 1))
         IN rest \o NewColumns(rest, dfs[Len(dfs)].columns)

\* The frames' rows one after the other, each widened to the columns cols
\* with NaN where its frame has no such column.
RECURSIVE StackRows(_, _)
StackRows(dfs, cols) ==
    IF dfs = <<>> THEN <<>>
    ELSE [i \in 1..NumRows(Head(dfs)) |->
            [c \in cols |->
               IF HasColumn(Head(dfs), c) THEN Head(dfs).rows[i].cells[c]
               ELSE NaN]]
         \o StackRows(Tail(dfs), cols)

\* A mutant of concat: the frames are stacked last file first.
ConcatReversed(dfs) ==
    LET cols == UnionColumns(dfs)
        rev == [i \in 1..Len(dfs) |-> dfs[Len(dfs) + 1 - i]]
        stacked == StackRows(rev, Range(cols))
    IN [columns |-> cols,
        rows |-> [i \in 1..Len(stacked) |-> [index |-> i - 1, cells |-> stacked[i]]]]

\* pd.concat(dfs, ignore_index=True): outer join on the columns, rows in
\* list order, index renumbered 0..n-1.
concat(dfs) ==
    LET cols == UnionColumns(dfs)
        stacked == StackRows(dfs, Range(cols))
    IN [columns |-> cols,
        rows |-> [i \in 1..Len(stacked) |-> [index |-> i - 1, cells |-> stacked[i]]]]

\* load_all_data(files)
load_all_data(fs) ==
    LET dfs == [i \in 1..Len(fs) |->
                  SetScalarColumn(read_csv(fs[i]), ProvenanceColumn,
                                  PathName(fs[i].path))]
    IN IF dfs # <<>> THEN concat(dfs) ELSE EmptyDataFrame

\* ------------------------------------------------------------ filter_data

\* The frame filter_data works on (the local df2), the caller's frame (the
\* argument df), and whether the two names are bound to one object, so that
\* an assignment to a column of df2 is an assignment to the caller's frame.
\* steps is the local list of debug steps.

\* A mutant of df.copy(): df2 is bound to the caller's frame itself.
NoCopy(df) == [df2 |-> df, df |-> df, shared |-> TRUE, steps |-> <<>>]

\* df2 = df.copy(): a new frame with the same contents.
copy(df) == [df2 |-> df, df |-> df, shared |-> FALSE, steps |-> <<>>]

\* The frame with column col replaced by its cells' astype(str).str.lower().
LowerColumn(df, col) ==
    [columns |-> df.columns,
     rows    |-> [i \in 1..NumRows(df) |->
                    [index |-> df.rows[i].index,
                     cells |-> [df.rows[i].cells EXCEPT
                                  ![col] = lower(astype_str(@))]]]]

\* A mutant of the column assignment: the column is left as it was.
AssignNotLowered(st, col) == st

\* df2[col] = df2[col].astype(str).str.lower(): assigns into the object df2
\* names, which is the caller's frame when the two are one object.
AssignLowered(st, col) ==
    [st EXCEPT !.df2 = LowerColumn(st.df2, col),
               !.df  = IF st.shared THEN LowerColumn(st.df2, col) ELSE @]

\* df2 = df2[mask]: df2 is rebound to a new frame holding the selected rows.
Rebind(st, mask) ==
    [st EXCEPT !.df2 = [columns |-> st.df2.columns,
                        rows |-> BoolIndex(st.df2.rows, mask)],
               !.shared = FALSE]

\* steps.append((label, len(df2))) when debug is set.
AppendStep(st, debug, label) ==
    IF debug THEN [st EXCEPT !.steps = Append(@, <<label, NumRows(st.df2)>>)]
    ELSE st

\* A mutant of the empty-filter test: only None is skipped.
SkipsOnlyNone(val) == val.type = "NoneType"

\* Lines 65-70: the filter is skipped when val is None, an empty
\* list/tuple/set or the empty string.
IsEmptyFilter(val) ==
    \/ val.type = "NoneType"
    \/ val.type = "list" /\ Len(val.value) = 0
    \/ val.type = "str" /\ val.value = <<>>

\* A mutant of the filter's mask: the filter's values are compared as given.
FilterMaskNoLower(df2, col, val) ==
    IF val.type = "list"
    THEN [i \in 1..NumRows(df2) |-> df2.rows[i].cells[col] \in Range(val.value)]
    ELSE [i \in 1..NumRows(df2) |-> df2.rows[i].cells[col] = val.value]

\* Lines 82-87: df2[col].isin(val_norm) for a collection, df2[col] == v_norm
\* for a single value, the filter's values lowercased.
FilterMask(df2, col, val) ==
    IF val.type = "list"
    THEN LET val_norm == {lower(v) : v \in Range(val.value)}
         IN [i \in 1..NumRows(df2) |-> df2.rows[i].cells[col] \in val_norm]
    ELSE LET v_norm == lower(val.value)
         IN [i \in 1..NumRows(df2) |-> df2.rows[i].cells[col] = v_norm]

\* A mutant of the early exit: the loop goes on with the empty frame.
NeverExitsEarly(df2) == FALSE

\* df2.empty, the test of the early exit.
ExitsEarly(df2) == NumRows(df2) = 0

\* Lines 63-96, the loop over filtros.items() from a state st of the locals:
\* the state at the end of the loop, with exited telling whether the function
\* returned from inside the loop.
RECURSIVE FilterLoop(_, _, _)
FilterLoop(st, items, debug) ==
    IF items = <<>> THEN [st |-> st, exited |-> FALSE]
    ELSE LET col == Head(items)[1]
             val == Head(items)[2]
         IN IF IsEmptyFilter(val) THEN FilterLoop(st, Tail(items), debug)
            ELSE IF ~HasColumn(st.df2, col)
            THEN FilterLoop(AppendStep(st, debug, <<"skip_missing_col", col>>),
                            Tail(items), debug)
            ELSE LET s1 == AssignLowered(st, col)
                     s2 == Rebind(s1, FilterMask(s1.df2, col, val))
                     s3 == AppendStep(s2, debug, <<"after_filter", col>>)
                 IN IF ExitsEarly(s3.df2)
                    THEN [st |-> AppendStep(s3, debug, <<"early_exit_empty">>),
                          exited |-> TRUE]
                    ELSE FilterLoop(s3, Tail(items), debug)

\* re.compile(q) fails: of the characters a query is drawn from here
\* (letters, ".", "("), an unclosed "(" is what the regex compiler rejects.
RegexError(q) == "(" \in Range(q)

\* re.search(q, s) for a pattern of letters and ".": some place of s where
\* every pattern character is "." or the character of s there.
RegexSearch(q, s) ==
    \E off \in 0..(Len(s) - Len(q)) :
        \A j \in 1..Len(q) : q[j] = "." \/ q[j] = s[off + j]

\* Line 104: df2[column_for_search] == q.
ExactMask(df2, col, query) ==
    LET q == lower(query.value)
    IN [i \in 1..NumRows(df2) |-> df2.rows[i].cells[col] = q]

\* Line 106: df2[column_for_search].str.contains(q, na=False), q a regular
\* expression.  Every cell is text after astype(str), so na applies to none.
ContainsMask(df2, col, query) ==
    LET q == lower(query.value)
    IN [i \in 1..NumRows(df2) |-> RegexSearch(q, df2.rows[i].cells[col])]

\* Line 99: `if column_for_search and query`.
SearchRequested(column_for_search, query) ==
    /\ column_for_search.type = "str" /\ column_for_search.value # ""
    /\ query.type = "str" /\ query.value # <<>>

\* filter_data(df, filtros, column_for_search, query, exact_match, debug):
\* how the call ends (outcome), the frame returned (ret), the caller's frame
\* after the call (df) and what the call printed (out).
filter_data(df, filtros, column_for_search, query, exact_match, debug) ==
    LET st0  == AppendStep(copy(df), debug, <<"initial">>)
        loop == FilterLoop(st0, filtros, debug)
        st1  == loop.st
        col  == column_for_search.value
    IN IF loop.exited
       THEN [outcome |-> "return", ret |-> st1.df2, df |-> st1.df, out |-> <<>>]
       ELSE IF ~SearchRequested(column_for_search, query)
       THEN [outcome |-> "return", ret |-> st1.df2, df |-> st1.df,
             out |-> st1.steps]
       ELSE IF ~HasColumn(st1.df2, col)
       THEN LET st2 == AppendStep(st1, debug, <<"search_col_missing", col>>)
            IN [outcome |-> "return", ret |-> st2.df2, df |-> st2.df,
                out |-> st2.steps]
       ELSE LET st2 == AssignLowered(st1, col)
            IN IF ~exact_match /\ RegexError(lower(query.value))
               THEN [outcome |-> "raise", ret |-> EmptyDataFrame, df |-> st2.df,
                     out |-> <<>>]
               ELSE LET mask == IF exact_match
                                THEN ExactMask(st2.df2, col, query)
                                ELSE ContainsMask(st2.df2, col, query)
                        st3 == AppendStep(Rebind(st2, mask), debug,
                                          <<"after_search", col>>)
                    IN [outcome |-> "return", ret |-> st3.df2, df |-> st3.df,
                        out |-> st3.steps]

\* --------------------------------------------------------- the arguments

\* The columns a filter or a search names.  Whether the frame has the column
\* depends on the files loaded.
ArgColumns == {"SETOR", "SIT"}

\* The constraints a filter entry holds: the three empty ones, single values
\* and a list, in letter cases other than the cells'.
FilterValues ==
    {None, Str(<<>>), List(<<>>),
     Str(<<"R","h">>), Str(<<"A","T","I","V","O">>),
     List(<< <<"r","H">>, <<"a","t","i","v","o">> >>)}

\* The queries typed: not given, plain text, text that str(NaN) contains, and
\* text with a character the regex compiler gives a meaning to.
Queries ==
    {None, Str(<<"T","I">>), Str(<<"n","a">>), Str(<<".">>), Str(<<"(">>)}

\* filtros[col] = val on a dict kept as the sequence of its items: a present
\* key keeps its place, a new key goes last.
DictSet(items, col, val) ==
    IF \E i \in 1..Len(items) : items[i][1] = col
    THEN [i \in 1..Len(items) |->
            IF items[i][1] = col THEN <<col, val>> ELSE items[i]]
    ELSE Append(items, <<col, val>>)

\* ------------------------------------------------------------- the program

VARIABLES
    files,              \* the list of CSV files found (line 24)
    df_all,             \* the loaded frame, the caller's frame of every call
    filtros,            \* the filter dict, as the sequence of its items
    column_for_search,  \* None or Str(column name)
    query,              \* None or Str(text)
    exact_match,
    debug,
    pc,                 \* "start", "ready" (arguments set), "returned", "raised"
    ret,                \* the frame the last call returned, when pc = "returned"
    stdout              \* what the last call printed

vars == <<files, df_all, filtros, column_for_search, query, exact_match,
          debug, pc, ret, stdout>>

args == <<filtros, column_for_search, query, exact_match, debug>>

Init ==
    /\ files \in FileLists
    /\ df_all = EmptyDataFrame
    /\ filtros = <<>>
    /\ column_for_search = None
    /\ query = None
    /\ exact_match = TRUE
    /\ debug = FALSE
    /\ pc = "start"
    /\ ret = EmptyDataFrame
    /\ stdout = <<>>

\* df_all = load_all_data(files)
LoadAllData ==
    /\ pc = "start"
    /\ df_all' = load_all_data(files)
    /\ pc' = "ready"
    /\ UNCHANGED <<files, args, ret, stdout>>

\* The arguments of the next call are changed; the last call's result is gone.
NewCall ==
    /\ pc \in {"ready", "returned", "raised"}
    /\ pc' = "ready"
    /\ ret' = EmptyDataFrame
    /\ stdout' = <<>>
    /\ UNCHANGED <<files, df_all>>

\* filtros = {}
ResetFilters ==
    /\ NewCall
    /\ filtros # <<>>
    /\ filtros' = <<>>
    /\ UNCHANGED <<column_for_search, query, exact_match, debug>>

\* filtros[col] = val
SetFilter ==
    /\ NewCall
    /\ \E col \in ArgColumns, val \in FilterValues :
          filtros' = DictSet(filtros, col, val)
    /\ UNCHANGED <<column_for_search, query, exact_match, debug>>

\* The search arguments: no column and no query, or a column with a query or
\* none, in either match mode.
SetSearch ==
    /\ NewCall
    /\ \/ column_for_search' = None /\ query' = None
       \/ \E col \in ArgColumns, q \in Queries :
             column_for_search' = Str(col) /\ query' = q
    /\ exact_match' \in BOOLEAN
    /\ UNCHANGED <<filtros, debug>>

\* The debug argument.
SetDebug ==
    /\ NewCall
    /\ debug' = ~debug
    /\ UNCHANGED <<filtros, column_for_search, query, exact_match>>

\* One call filter_data(df_all, filtros, column_for_search, query,
\* exact_match, debug), from its first line to its return or its exception.
FilterData ==
    /\ pc = "ready"
    /\ LET r == filter_data(df_all, filtros, column_for_search, query,
                            exact_match, debug)
       IN /\ df_all' = r.df
          /\ ret' = r.ret
          /\ stdout' = r.out
          /\ pc' = IF r.outcome = "return" THEN "returned" ELSE "raised"
    /\ UNCHANGED <<files, args>>

Next ==
    \/ LoadAllData
    \/ ResetFilters
    \/ SetFilter
    \/ SetSearch
    \/ SetDebug
    \/ FilterData

Spec == Init /\ [][Next]_vars

\* ---------------------------------------------------------------- claims

\* The words of the claims, stated on their own.

\* A call has ended, by a return or by an exception.
CallEnded == pc \in {"returned", "raised"}

\* The index labels of a frame's rows, in row order.
IndexSeq(df) == [i \in 1..NumRows(df) |-> df.rows[i].index]

\* The row of df with index label idx.
RowAt(df, idx) == CHOOSE r \in Range(df.rows) : r.index = idx

\* An ignorable constraint: None, the empty string, an empty collection.
Ignorable(val) ==
    val = None \/ val = Str(<<>>) \/ val = List(<<>>)

\* Entry k of filtros is applied: not ignorable, on a column of the table.
Applied(k) ==
    ~Ignorable(filtros[k][2]) /\ HasColumn(df_all, filtros[k][1])

\* A cell is selected by a constraint: its lowercase text equals the lowercase
\* of the single value, or is among the lowercased values of the collection.
\* The text of a NaN cell is what the comparison converts it to, "nan".
Selected(cell, val) ==
    IF val.type = "list"
    THEN \E v \in Range(val.value) : lower(astype_str(cell)) = lower(v)
    ELSE lower(astype_str(cell)) = lower(val.value)

\* The rows of the table that satisfy the applied entries 1..k of filtros.
RowsPassing(k) ==
    {i \in 1..NumRows(df_all) :
        \A m \in 1..k :
            Applied(m) => Selected(df_all.rows[i].cells[filtros[m][1]],
                                   filtros[m][2])}

\* Some applied entry, taken in order, leaves no row.
SomeFilterLeavesNoRow ==
    \E k \in 1..Len(filtros) : Applied(k) /\ RowsPassing(k) = {}

\* A search is given and its column is a column of the table.
SearchApplies ==
    /\ SearchRequested(column_for_search, query)
    /\ HasColumn(df_all, column_for_search.value)

\* s contains q as a literal substring.
LiteralContains(s, q) ==
    \E off \in 0..(Len(s) - Len(q)) : \A j \in 1..Len(q) : s[off + j] = q[j]

\* filtros without its k-th entry.
WithoutEntry(k) == [i \in 1..(Len(filtros) - 1) |->
                      IF i < k THEN filtros[i] ELSE filtros[i + 1]]

\* How a call ends and what it returns.
Result(r) == <<r.outcome, r.ret>>

\* C1: the returned table is an order-preserving subsequence of the input's
\* rows, every returned row being a row of the input with every cell exactly
\* as it was in the input.
C1_ReturnsRowsOfInputUnchanged ==
    pc = "returned" =>
        /\ \A i \in 1..NumRows(ret) :
              \E j \in 1..NumRows(df_all) : df_all.rows[j] = ret.rows[i]
        /\ \A i, j \in 1..NumRows(ret) :
              i < j => ret.rows[i].index < ret.rows[j].index

\* C2: when an applied filter entry leaves no row, the call returns a table
\* with zero rows, whatever the remaining entries and the search are.
C2_EmptyFilterGivesEmptyResult ==
    (CallEnded /\ SomeFilterLeavesNoRow) =>
        (pc = "returned" /\ NumRows(ret) = 0)

\* C2 witness: an entry left no row, another entry follows it, and a
\* CONTAINS search with a query the regex compiler rejects was asked for.
C2_Witness ==
    /\ pc = "returned"
    /\ Len(filtros) = 2
    /\ Applied(1) /\ RowsPassing(1) = {}
    /\ ~Ignorable(filtros[2][2])
    /\ NumRows(df_all) > 0
    /\ SearchApplies /\ ~exact_match /\ query = Str(<<"(">>)
    /\ NumRows(ret) = 0

\* A query of letters only, which means the same as a regular expression and
\* as a literal.
PlainQuery ==
    \A j \in 1..Len(query.value) :
        query.value[j] \in Range(ascii_uppercase) \cup Range(ascii_lowercase)

\* C3: in CONTAINS mode no returned row has a null in the search column, for
\* every non-empty query.  Stated for the queries made of letters.
C3_NullNeverMatchesContains ==
    (pc = "returned" /\ SearchApplies /\ ~exact_match /\ PlainQuery) =>
        \A i \in 1..NumRows(ret) :
            RowAt(df_all, ret.rows[i].index).cells[column_for_search.value] # NaN

\* The table after the column filters alone.
PassedFilters ==
    filter_data(df_all, filtros, None, None, TRUE, FALSE).ret

\* C4: with a search on a column of the table, the call returns, and among
\* the rows that passed the filters it keeps exactly those whose lowercased
\* value equals (EXACT) or literally contains (CONTAINS) the lowercased
\* query.  Stated for the rows whose value is not null.
C4_SearchKeepsExactlyLiteralMatches ==
    (CallEnded /\ SearchApplies) =>
        /\ pc = "returned"
        /\ Range(IndexSeq(ret)) \subseteq Range(IndexSeq(PassedFilters))
        /\ \A idx \in Range(IndexSeq(PassedFilters)) :
              LET v == RowAt(df_all, idx).cells[column_for_search.value]
                  q == lower(query.value)
              IN v # NaN =>
                   (idx \in Range(IndexSeq(ret)) <=>
                       IF exact_match THEN lower(v) = q
                       ELSE LiteralContains(lower(v), q))

\* C5: removing an ignorable entry (None, "", an empty collection, or a
\* column the table does not have) leaves the result unchanged; so does a
\* search on a column the table does not have; with no entry and no search
\* the table comes back equal to the input.
C5_IgnorableEntriesAreNoOps ==
    CallEnded =>
        /\ \A k \in 1..Len(filtros) :
              (Ignorable(filtros[k][2]) \/ ~HasColumn(df_all, filtros[k][1])) =>
                  Result(filter_data(df_all, WithoutEntry(k), column_for_search,
                                     query, exact_match, debug))
                      = <<IF pc = "returned" THEN "return" ELSE "raise", ret>>
        /\ (SearchRequested(column_for_search, query) /\ ~SearchApplies) =>
              /\ pc = "returned"
              /\ ret = filter_data(df_all, filtros, None, None, exact_match,
                                   debug).ret
        /\ (filtros = <<>> /\ ~SearchRequested(column_for_search, query)) =>
              (pc = "returned" /\ ret = df_all)

\* C5 witness: a call with an empty-string entry and an applied entry that
\* kept some rows and dropped others.
C5_Witness ==
    /\ pc = "returned"
    /\ Len(filtros) = 2
    /\ filtros[1][2] = Str(<<>>)
    /\ Applied(2)
    /\ 0 < NumRows(ret) /\ NumRows(ret) < NumRows(df_all)

\* C6: after any sequence of calls the caller's table is the table as loaded:
\* same rows, same order, same cell values.
C6_InputNeverMutated ==
    pc # "start" => df_all = load_all_data(files)

\* C6 witness: a call returned rows whose cells were lowercased in the
\* returned table.
C6_Witness ==
    /\ pc = "returned"
    /\ \E i \in 1..NumRows(ret) :
          ret.rows[i] # RowAt(df_all, ret.rows[i].index)

\* The values a wider constraint is made of.
WiderValues ==
    {<<"r","h">>, <<"R","H">>, <<"A","t","i","v","o">>, <<"t","i">>, <<"z">>}

\* The lists S' that hold every value of the list S up to letter case.
Supersets(S) ==
    {List(l) : l \in {l \in UNION {[1..n -> WiderValues] : n \in 0..3} :
                         \A v \in Range(S.value) :
                             \E w \in Range(l) : lower(w) = lower(v)}}

\* The last call filtered by one collection on one column, with no search.
FilteredByOneSet ==
    /\ pc = "returned"
    /\ Len(filtros) = 1
    /\ filtros[1][2].type = "list"
    /\ ~SearchRequested(column_for_search, query)

\* Filtering the returned table again by every superset S' of S gives the
\* returned table.
RefilterIsIdentity ==
    \A S2 \in Supersets(filtros[1][2]) :
        Result(filter_data(ret, <<<<filtros[1][1], S2>>>>, None, None, TRUE, FALSE))
            = <<"return", ret>>

\* C7 as claimed: for every constraint set S, re-filtering by a superset of S
\* gives the same table as filtering once by S.
C7_RefilterBySupersetAnySet ==
    FilteredByOneSet => RefilterIsIdentity

\* C7 amended: for every non-empty constraint set S, re-filtering by a
\* superset of S gives the same table as filtering once by S.
C7_RefilterBySupersetNonEmptySet ==
    (FilteredByOneSet /\ filtros[1][2].value # <<>>) => RefilterIsIdentity

\* C7 witness: a non-empty set kept some rows of the table and dropped others.
C7_Witness ==
    /\ FilteredByOneSet
    /\ filtros[1][2].value # <<>>
    /\ 0 < NumRows(ret) /\ NumRows(ret) < NumRows(df_all)

\* filtros with every constraint value lowercased.
LowerSpec ==
    [k \in 1..Len(filtros) |->
        LET val == filtros[k][2]
        IN <<filtros[k][1],
             IF val.type = "list"
             THEN List([i \in 1..Len(val.value) |-> lower(val.value[i])])
             ELSE IF val.type = "str" THEN Str(lower(val.value))
             ELSE val>>]

\* C8: with filters alone, a row is selected iff, for every applied entry, its
\* cell's lowercase equals the lowercase of the single value or is among the
\* lowercased values of the collection; and the spec with its values in
\* another letter case selects the same rows.
C8_FilteringIsCaseInsensitive ==
    (pc = "returned" /\ ~SearchRequested(column_for_search, query)) =>
        /\ IndexSeq(ret) =
              IndexSeq([columns |-> df_all.columns,
                        rows |-> BoolIndex(df_all.rows,
                                   [i \in 1..NumRows(df_all) |->
                                      i \in RowsPassing(Len(filtros))])])
        /\ IndexSeq(ret) =
              IndexSeq(filter_data(df_all, LowerSpec, None, None, TRUE, FALSE).ret)

\* C8 witness: an applied entry whose value is not in lowercase selected a
\* row whose cell is not in lowercase, and dropped another row.
C8_Witness ==
    /\ pc = "returned"
    /\ ~SearchRequested(column_for_search, query)
    /\ LowerSpec # filtros
    /\ \E k \in 1..Len(filtros) :
          /\ Applied(k)
          /\ \E i \in 1..NumRows(ret) :
                LET v == RowAt(df_all, ret.rows[i].index).cells[filtros[k][1]]
                IN v # NaN /\ lower(v) # v
    /\ NumRows(ret) < NumRows(df_all)

\* The place in the loaded table of line i of file k.
RowOfLine(k, i) ==
    LET RECURSIVE Before(_)
        Before(n) == IF n = 0 THEN 0 ELSE Before(n - 1) + Len(files[n].lines)
    IN Before(k - 1) + i

\* C9: the loaded table holds the files' rows in list order, each with its
\* file's name in the provenance column, its file's cells, and null in every
\* column its file does not have; an empty list gives a table with no rows.
C9_LoadConcatenatesInOrder ==
    pc # "start" =>
        /\ NumRows(df_all) = RowOfLine(Len(files) + 1, 0)
        /\ \A k \in 1..Len(files) :
              \A i \in 1..Len(files[k].lines) :
                 LET cells == df_all.rows[RowOfLine(k, i)].cells
                     f == files[k]
                 IN /\ cells[ProvenanceColumn] = f.path[Len(f.path)]
                    /\ \A n \in 1..Len(f.header) :
                          cells[f.header[n]] = f.lines[i][n]
                    /\ \A c \in Range(df_all.columns) :
                          (c # ProvenanceColumn /\ c \notin Range(f.header))
                              => cells[c] = NaN
        /\ files = <<>> => NumRows(df_all) = 0

\* C9 witness: two files with different columns were loaded, both with rows.
C9_Witness ==
    /\ pc # "start"
    /\ Len(files) = 2
    /\ files[1].header # files[2].header
    /\ files[1].lines # <<>> /\ files[2].lines # <<>>
    /\ \E i \in 1..NumRows(df_all) :
          \E c \in Range(df_all.columns) : df_all.rows[i].cells[c] = NaN

\* C10: with debug set, every call that returns has printed a trace that
\* starts with the initial count and, when the early exit was taken, holds
\* the early-exit signal.
C10_DebugTraceAlwaysEmitted ==
    (pc = "returned" /\ debug) =>
        /\ Len(stdout) >= 1
        /\ stdout[1] = << <<"initial">>, NumRows(df_all) >>
        /\ SomeFilterLeavesNoRow =>
              \E i \in 1..Len(stdout) : stdout[i] = << <<"early_exit_empty">>, 0 >>

====
